---- MODULE Spec2Model ----
(***************************************************************************)
(* Model of the porkbun client library (src/src/lib.rs) and of the ddns    *)
(* driver built on it (src/ddns/src/main.rs).                              *)
(*                                                                         *)
(* Text (key file, request bodies) is a sequence of symbols.  The symbols  *)
(* "{", "}", ":", ",", the double quote and the backslash are the JSON     *)
(* structural characters; every other symbol stands for a non-empty run of *)
(* ordinary characters ("apikey", "1.2.3.4", "null", ...).                 *)
(***************************************************************************)
EXTENDS Integers, Sequences, FiniteSets, TLC

\* ------------------------------------------------------------------ bounds
MaxKeyLen == 1
MaxRecords == 2
MaxLibRecords == 1

\* ------------------------------------------------------------- basic data
Q == "\""
BS == "\\"
None == "None"

Ipv4Addrs == {"1.2.3.4", "9.9.9.9"}
Ipv6Addrs == {"::1", "2001:db8::1"}
IpAddrs == Ipv4Addrs \cup Ipv6Addrs

Names == {"example.com", "www.example.com", "EXAMPLE.COM"}
Domains == {"example.com"}
Subdomains == {None, "www.example.com"}

SeqsUpTo(S, n) == UNION {[1..k -> S] : k \in 0..n}

\* ------------------------------------------------------------ JSON text
RECURSIVE Escape(_)
\* serde_json's string escaping: a quote or a backslash gets a backslash.
Escape(s) ==
    IF s = <<>> THEN <<>>
    ELSE (IF Head(s) \in {Q, BS} THEN <<BS, Head(s)>> ELSE <<Head(s)>>)
         \o Escape(Tail(s))

RECURSIVE Unescape(_)
Unescape(s) ==
    IF s = <<>> THEN <<>>
    ELSE IF Head(s) = BS /\ Len(s) >= 2 THEN <<s[2]>> \o Unescape(Tail(Tail(s)))
    ELSE <<Head(s)>> \o Unescape(Tail(s))

\* serde_json::to_string of a string value.
JsonString(s) == <<Q>> \o Escape(s) \o <<Q>>

\* serde_json::to_string of an Option<&str>.
JsonOptString(o) == IF o = None THEN <<"null">> ELSE JsonString(<<o>>)

RECURSIVE StrEnd(_, _)
\* Index of the quote closing the string whose content starts at j; 0 if none.
StrEnd(s, j) ==
    IF j > Len(s) THEN 0
    ELSE IF s[j] = BS THEN (IF j + 1 > Len(s) THEN 0 ELSE StrEnd(s, j + 2))
    ELSE IF s[j] = Q THEN j
    ELSE StrEnd(s, j + 1)

JsonLiterals == {"null", "true", "false", "0", "1"}

\* Index of the last symbol of the JSON value starting at i; 0 if there is none.
ValueEnd(s, i) ==
    IF i > Len(s) THEN 0
    ELSE IF s[i] = Q THEN StrEnd(s, i + 1)
    ELSE IF s[i] \in JsonLiterals THEN i
    ELSE 0

RECURSIVE Members(_, _, _)
\* Parses `"key":value` members from index i on, up to the closing brace that
\* ends the text.  acc collects <<key, kind, text>>; the result is
\* [ok, fields].
Members(s, i, acc) ==
    LET bad == [ok |-> FALSE, fields |-> <<>>]
        ke == IF i <= Len(s) /\ s[i] = Q THEN StrEnd(s, i + 1) ELSE 0
        ve == IF ke # 0 /\ ke + 1 <= Len(s) /\ s[ke + 1] = ":"
              THEN ValueEnd(s, ke + 2) ELSE 0
    IN  IF ve = 0 \/ ve + 1 > Len(s) THEN bad
        ELSE LET field == [key |-> Unescape(SubSeq(s, i + 1, ke - 1)),
                           isString |-> s[ke + 2] = Q,
                           value |-> IF s[ke + 2] = Q
                                     THEN Unescape(SubSeq(s, ke + 3, ve - 1))
                                     ELSE SubSeq(s, ke + 2, ve)]
                 acc2 == Append(acc, field)
             IN  IF s[ve + 1] = "}" THEN
                     (IF ve + 1 = Len(s) THEN [ok |-> TRUE, fields |-> acc2] ELSE bad)
                 ELSE IF s[ve + 1] = "," THEN Members(s, ve + 2, acc2)
                 ELSE bad

\* Parses a text as one JSON object.
ParseObject(s) ==
    IF Len(s) < 2 \/ s[1] # "{" THEN [ok |-> FALSE, fields |-> <<>>]
    ELSE IF Len(s) = 2 THEN [ok |-> s[2] = "}", fields |-> <<>>]
    ELSE Members(s, 2, <<>>)

HasStringField(p, k) ==
    \E n \in 1..Len(p.fields) : p.fields[n].key = <<k>> /\ p.fields[n].isString

\* The string value of field k (the texts of this model never repeat a key).
StringField(p, k) ==
    LET n == CHOOSE n \in 1..Len(p.fields) : p.fields[n].key = <<k>> /\ p.fields[n].isString
    IN  p.fields[n].value

\* ----------------------------------------------------------------- results
Ok(v) == [ok |-> TRUE, value |-> v]
Err(kind, detail) == [ok |-> FALSE, err |-> [kind |-> kind, detail |-> detail]]

\* What an operation returns on success: nothing (None, or ()), one value
\* (Some(v)) or a list of records (Vec<T>).
NoValue == [some |-> FALSE, v |-> None, list |-> <<>>]
Some(v) == [some |-> TRUE, v |-> v, list |-> <<>>]
List(l) == [some |-> TRUE, v |-> None, list |-> l]

\* ------------------------------------------------------------- open_keys
KeyChars == {"k", Q}
Keys == SeqsUpTo(KeyChars, MaxKeyLen) \ {<<>>}

\* A key file in the documented format.
KeyFileText(api, secret) ==
    <<"{", Q, "secretapikey", Q, ":">> \o JsonString(secret)
    \o <<",", Q, "apikey", Q, ":">> \o JsonString(api) \o <<"}">>

GoodKeyFiles == {[readable |-> TRUE, text |-> KeyFileText(a, s)] : a \in Keys, s \in Keys}

BadKeyFiles ==
    { [readable |-> FALSE, text |-> <<>>],
      [readable |-> TRUE, text |-> <<"k">>],
      [readable |-> TRUE, text |-> <<"{", Q, "apikey", Q, ":", Q, "k", Q, "}">>],
      [readable |-> TRUE,
       text |-> <<"{", Q, "secretapikey", Q, ":", "1", ",", Q, "apikey", Q, ":", Q, "k", Q, "}">>] }

NoClient == [key_file |-> <<>>, secret_api_key |-> <<>>, api_key |-> <<>>]

open_keys(file) ==
    IF ~file.readable THEN Err("Io", "")
    ELSE LET keys == ParseObject(file.text)
         IN  IF ~(keys.ok /\ HasStringField(keys, "apikey")
                          /\ HasStringField(keys, "secretapikey"))
             THEN Err("Json", "")
             ELSE Ok([key_file |-> file.text,
                      secret_api_key |-> StringField(keys, "secretapikey"),
                      api_key |-> StringField(keys, "apikey")])

\* ------------------------------------------------------------- responses
Absent == "<absent>"

\* The payload field of a response: omitted ("absent"), null, a value of the
\* expected shape (v for yourIp and id, list for records), or anything else
\* ("malformed").
Payload(tag, v, list) == [tag |-> tag, v |-> v, list |-> list]
NoPayload == Payload("absent", None, <<>>)
NullPayload == Payload("null", None, <<>>)
MalformedPayload == Payload("malformed", None, <<>>)

\* The status field: the two recognised literals, another value, or no field.
StatusValues == {"SUCCESS", "ERROR", "success", Absent}

Messages == {"", "Invalid API key."}
\* The message field: omitted, a string, or a value that is not a string.
MessageValues ==
    {[tag |-> "absent", text |-> ""], [tag |-> "other", text |-> ""]}
    \cup {[tag |-> "str", text |-> m] : m \in Messages}

NoMessage == [tag |-> "absent", text |-> ""]

\* A response is a transport failure, a body that is no JSON, a JSON value that
\* is no object, or an object with a status, a message and a payload field.
Envelopes(payloads) ==
    {[kind |-> k, status |-> Absent, message |-> NoMessage, payload |-> p]
        : k \in {"transport", "not_json", "not_object"}, p \in {NoPayload}}
    \cup [kind : {"object"}, status : StatusValues, message : MessageValues,
          payload : payloads]

\* yourIp: omitted, null, an address, or something that is no address.
PingPayloads ==
    {NoPayload, NullPayload, MalformedPayload} \cup {Payload("value", a, <<>>) : a \in IpAddrs}
PingResponses == Envelopes(PingPayloads)

Records == [name : Names, content : IpAddrs]
RecordLists(n) == SeqsUpTo(Records, n)
\* records: omitted, a list of records, or something that is no list.
FetchPayloads(n) ==
    {NoPayload, MalformedPayload} \cup {Payload("value", None, l) : l \in RecordLists(n)}
FetchResponses(n) == Envelopes(FetchPayloads(n))

\* id: omitted, null, a number, or something that is no u32.
CreatePayloads == {NoPayload, NullPayload, MalformedPayload, Payload("value", "7", <<>>)}
CreateResponses == Envelopes(CreatePayloads)

EditResponses == Envelopes({NoPayload})

\* -------------------------------------------------------------- requests
\* A URL is its host followed by its path segments; format!("…/{TYPE}/") leaves
\* an empty last segment, to which the subdomain is pushed when there is one.
PingUrl == <<"api.porkbun.com", "api", "json", "v3", "ping">>
PingIpv4Url == <<"api-ipv4.porkbun.com", "api", "json", "v3", "ping">>

DnsUrl(endpoint, domain) == <<"api.porkbun.com", "api", "json", "v3", "dns", endpoint, domain>>

NameTypeUrl(endpoint, domain, ty, subdomain) ==
    DnsUrl(endpoint, domain) \o <<ty, IF subdomain = None THEN "" ELSE subdomain>>

\* The TYPE segment of a …ByNameType URL.
UrlType(url) == url[8]

Post(url, body) == [url |-> url, body |-> body]

ping_url_request(client, url) == Post(url, client.key_file)

fetch_records_url_request(client, url) == Post(url, client.key_file)

fetch_records_request(client, domain) ==
    fetch_records_url_request(client, DnsUrl("retrieve", domain))

fetch_ipv4_records_request(client, domain, subdomain) ==
    fetch_records_url_request(client, NameTypeUrl("retrieveByNameType", domain, "A", subdomain))

fetch_ipv6_records_request(client, domain, subdomain) ==
    fetch_records_url_request(client, NameTypeUrl("retrieveByNameType", domain, "AAAA", subdomain))

\* serde_json::to_string(&Body { .. }): every field is serialised, None as null.
create_record_request(client, domain, name, ty, content, ttl, prio) ==
    Post(DnsUrl("create", domain),
         <<"{", Q, "secretapikey", Q, ":">> \o JsonString(client.secret_api_key)
         \o <<",", Q, "apikey", Q, ":">> \o JsonString(client.api_key)
         \o <<",", Q, "name", Q, ":">> \o JsonOptString(name)
         \o <<",", Q, "type", Q, ":">> \o JsonString(<<ty>>)
         \o <<",", Q, "content", Q, ":">> \o JsonString(<<content>>)
         \o <<",", Q, "ttl", Q, ":">> \o JsonOptString(ttl)
         \o <<",", Q, "prio", Q, ":">> \o JsonOptString(prio)
         \o <<"}">>)

\* format!("{{\"secretapikey\":{},\"apikey\":{},\"type\":{},\"content\":{}}}", ..):
\* the two keys and ty are written as they are, the content through serde_json.
edit_record_url_request(client, url, ty, content) ==
    Post(url,
         <<"{", Q, "secretapikey", Q, ":">> \o client.secret_api_key
         \o <<",", Q, "apikey", Q, ":">> \o client.api_key
         \o <<",", Q, "type", Q, ":", ty>>
         \o <<",", Q, "content", Q, ":">> \o JsonString(<<content>>)
         \o <<"}">>)

edit_ipv4_address_request(client, domain, subdomain, address) ==
    edit_record_url_request(client, NameTypeUrl("editByNameType", domain, "A", subdomain),
                            "A", address)

edit_ipv6_address_request(client, domain, subdomain, address) ==
    edit_record_url_request(client, NameTypeUrl("editByNameType", domain, "A", subdomain),
                            "A", address)

\* ------------------------------------------------------------- decoding
\* serde_json::from_str into a struct { status: Status, #[serde(default)]
\* message: String, .. } fails unless the body is an object whose status is one
\* of the two literals and whose message, when present, is a string.
TypedEnvelopeFails(resp) ==
    \/ resp.kind # "object"
    \/ resp.status \notin {"SUCCESS", "ERROR"}
    \/ resp.message.tag = "other"

\* #[serde(default)] message: String
DefaultedMessage(resp) == IF resp.message.tag = "absent" THEN "" ELSE resp.message.text

ping_url(resp) ==
    IF resp.kind = "transport" THEN Err("Request", "")
    ELSE IF TypedEnvelopeFails(resp) \/ resp.payload.tag = "malformed"
         THEN Err("MalformedApiSerde", "")
    ELSE IF resp.status = "SUCCESS"
         THEN Ok(IF resp.payload.tag \in {"absent", "null"} THEN NoValue
                 ELSE Some(resp.payload.v))
    ELSE Err("Api", DefaultedMessage(resp))

ping(resp) == ping_url(resp)

\* ping_ipv4 without the check of the address family.
ping_ipv4_unchecked(resp) == ping_url(resp)

ping_ipv4(resp) ==
    LET r == ping_url(resp)
    IN  IF r.ok /\ r.value.some /\ r.value.v \in Ipv4Addrs THEN Ok(Some(r.value.v))
        ELSE IF r.ok /\ r.value.some THEN Err("UnexpectedIpv6", r.value.v)
        ELSE IF r.ok THEN Ok(NoValue)
        ELSE r

ping_ipv6(resp) ==
    LET r == ping_url(resp)
    IN  IF r.ok /\ r.value.some /\ r.value.v \in Ipv4Addrs THEN Err("UnexpectedIpv4", r.value.v)
        ELSE IF r.ok /\ r.value.some THEN Ok(Some(r.value.v))
        ELSE IF r.ok THEN Ok(NoValue)
        ELSE r

\* Whether serde_json::from_value::<Vec<T>> accepts the records value: T is
\* "A" (Ipv4Record), "AAAA" (Ipv6Record) or "any" (DnsRecord, content a string).
RecordsParse(payload, T) ==
    /\ payload.tag = "value"
    /\ \A n \in 1..Len(payload.list) :
          \/ T = "any"
          \/ T = "A" /\ payload.list[n].content \in Ipv4Addrs
          \/ T = "AAAA" /\ payload.list[n].content \in Ipv6Addrs

\* fetch_records_url with #[serde(default)] semantics for the records field.
fetch_records_url_default(resp, T) ==
    IF resp.kind = "transport" THEN Err("Request", "")
    ELSE IF resp.kind = "not_json" THEN Err("MalformedApiSerde", "")
    ELSE IF resp.kind # "object" THEN Err("MalformedApi", "")
    ELSE IF resp.status \notin {"SUCCESS", "ERROR"} THEN Err("MalformedApi", "")
    ELSE IF resp.status = "SUCCESS" THEN
         (IF resp.payload.tag = "absent" THEN Ok(List(<<>>))
          ELSE IF ~RecordsParse(resp.payload, T) THEN Err("Json", "")
          ELSE Ok(List(resp.payload.list)))
    ELSE IF resp.message.tag # "str" THEN Err("MalformedApi", "")
    ELSE Err("Api", resp.message.text)

fetch_records_url(resp, T) ==
    IF resp.kind = "transport" THEN Err("Request", "")
    ELSE IF resp.kind = "not_json" THEN Err("MalformedApiSerde", "")
    ELSE IF resp.kind # "object" THEN Err("MalformedApi", "")
    ELSE IF resp.status \notin {"SUCCESS", "ERROR"} THEN Err("MalformedApi", "")
    ELSE IF resp.status = "SUCCESS" THEN
         (IF resp.payload.tag = "absent" THEN Err("MalformedApi", "")
          ELSE IF ~RecordsParse(resp.payload, T) THEN Err("Json", "")
          ELSE Ok(List(resp.payload.list)))
    ELSE IF resp.message.tag # "str" THEN Err("MalformedApi", "")
    ELSE Err("Api", resp.message.text)

fetch_records(resp) == fetch_records_url(resp, "any")
fetch_ipv4_records(resp) == fetch_records_url(resp, "A")
fetch_ipv6_records(resp) == fetch_records_url(resp, "AAAA")

create_record(resp) ==
    IF resp.kind = "transport" THEN Err("Request", "")
    ELSE IF TypedEnvelopeFails(resp) \/ resp.payload.tag = "malformed"
         THEN Err("MalformedApiSerde", "")
    ELSE IF resp.status = "SUCCESS"
         THEN Ok(IF resp.payload.tag \in {"absent", "null"} THEN NoValue
                 ELSE Some(resp.payload.v))
    ELSE Err("Api", DefaultedMessage(resp))

edit_record_url(resp) ==
    IF resp.kind = "transport" THEN Err("Request", "")
    ELSE IF TypedEnvelopeFails(resp) THEN Err("MalformedApiSerde", "")
    ELSE IF resp.status = "SUCCESS" THEN Ok(NoValue)
    ELSE Err("Api", DefaultedMessage(resp))

edit_ipv4_address(resp) == edit_record_url(resp)
edit_ipv6_address(resp) == edit_record_url(resp)

\* ---------------------------------------------------------- reconciliation
\* find_record taking the last record of that name instead of the first.
find_record_last(records, record_name, n) ==
    LET m == {k \in n..Len(records) : records[k].name = record_name}
    IN  IF m = {} THEN 0 ELSE CHOOSE k \in m : \A j \in m : j <= k

RECURSIVE find_record(_, _, _)
\* records.iter().find(|x| x.name == record_name): the index of the first
\* record from index n on whose name is record_name, 0 if there is none.
find_record(records, record_name, n) ==
    IF n > Len(records) THEN 0
    ELSE IF records[n].name = record_name THEN n
    ELSE find_record(records, record_name, n + 1)

\* .find(..).map(|x| x.address == ip_address): Some(true) is Unchanged,
\* Some(false) is Stale, None is Absent.
reconcile(ip_address, records, record_name) ==
    LET n == find_record(records, record_name, 1)
    IN  IF n = 0 THEN "Absent"
        ELSE IF records[n].content = ip_address THEN "Unchanged"
        ELSE "Stale"

\* record_name: the subdomain when one is given, else the domain.
RecordName(cfg) == IF cfg.subdomain # None THEN cfg.subdomain ELSE cfg.domain

\* ------------------------------------------------------------------ state
VARIABLES
    pc,           \* where the driver is; "lib" when the library is called directly
    config,       \* the parsed command line
    client,       \* the opened client
    ip_address,   \* update_ipvN's ip_address
    arm,          \* the arm of update_ipvN's match that was taken
    reconciled,   \* the reconciliation of the update function in progress or just
                  \* returned (inputs and decision); forgotten when the next starts
    observed,     \* per family: the address its ping returned, None if none
    decided,      \* per family: the decision of its reconciliation, None if none
    error_count,
    exit_code,    \* the process exit status, -1 while running
    outcome,      \* per family: "not_run", "ok" or "failed"
    calls,        \* every POST sent so far, in order
    last          \* the last direct library call: request, response, result

vars == <<pc, config, client, ip_address, arm, reconciled, observed, decided,
          error_count, exit_code, outcome, calls, last>>

Families == {"ipv4", "ipv6"}

DriverKeyFiles ==
    {[readable |-> TRUE, text |-> KeyFileText(<<"ak">>, <<"sk">>)]} \cup BadKeyFiles

Configs == [key : DriverKeyFiles, ipv4 : BOOLEAN, ipv6 : BOOLEAN,
            domain : Domains, subdomain : Subdomains]

NoReconcile == [family |-> None, observed |-> None, published |-> <<>>,
                target |-> None, decision |-> None]

NoCall == [fn |-> None]

Call(family, fn, req, ty, name, content, ttl, prio) ==
    [family |-> family, fn |-> fn, req |-> req, ty |-> ty, name |-> name,
     content |-> content, ttl |-> ttl, prio |-> prio]

Init ==
    /\ pc = "open"
    /\ config \in Configs
    /\ client = NoClient
    /\ ip_address = None
    /\ arm = None
    /\ reconciled = NoReconcile
    /\ observed = [f \in Families |-> None]
    /\ decided = [f \in Families |-> None]
    /\ error_count = 0
    /\ exit_code = -1
    /\ outcome = [f \in Families |-> "not_run"]
    /\ calls = <<>>
    /\ last = NoCall

\* ------------------------------------------------------------------- main
\* Client::open_keys(..).unwrap_or_else(|msg| { ..; exit(1) })
OpenKeys ==
    /\ pc = "open"
    /\ LET r == open_keys(config.key)
       IN  IF r.ok
           THEN /\ client' = r.value
                /\ pc' = "ipv4"
                /\ exit_code' = exit_code
           ELSE /\ client' = client
                /\ pc' = "done"
                /\ exit_code' = 1
    /\ UNCHANGED <<config, ip_address, arm, reconciled, observed, decided, error_count,
                   outcome, calls, last>>

\* AfterUpdate of a main that gives up at the first failed family.
AfterUpdate_abort(family, success) ==
    IF ~success THEN "exit" ELSE IF family = "ipv4" THEN "ipv6" ELSE "exit"

\* AfterUpdate of a main that runs a failed family again.
AfterUpdate_retry(family, success) ==
    IF ~success THEN family ELSE IF family = "ipv4" THEN "ipv6" ELSE "exit"

\* Where main goes on when update_ipvN has returned `success`.
AfterUpdate(family, success) == IF family = "ipv4" THEN "ipv6" ELSE "exit"

\* update_ipvN returned: main counts a failure and goes on to what follows.
Return(family, success) ==
    /\ outcome' = [outcome EXCEPT ![family] = IF success THEN "ok" ELSE "failed"]
    /\ error_count' = IF success THEN error_count ELSE error_count + 1
    /\ pc' = AfterUpdate(family, success)
    /\ ip_address' = None
    /\ arm' = None

\* config.ipv4 is false: && does not call update_ipv4.
SkipIpv4 ==
    /\ pc = "ipv4"
    /\ ~config.ipv4
    /\ pc' = "ipv6"
    /\ reconciled' = NoReconcile
    /\ UNCHANGED <<config, client, ip_address, arm, observed, decided, error_count,
                   exit_code, outcome, calls, last>>

SkipIpv6 ==
    /\ pc = "ipv6"
    /\ ~config.ipv6
    /\ pc' = "exit"
    /\ reconciled' = NoReconcile
    /\ UNCHANGED <<config, client, ip_address, arm, observed, decided, error_count,
                   exit_code, outcome, calls, last>>

\* exit(error_count)
Exit ==
    /\ pc = "exit"
    /\ exit_code' = error_count
    /\ pc' = "done"
    /\ UNCHANGED <<config, client, ip_address, arm, reconciled, observed, decided,
                   error_count, outcome, calls, last>>

\* match_arm with the edit and create arms swapped.
match_arm_swapped(d) ==
    CASE d = "Unchanged" -> "return"
      [] d = "Stale" -> "create"
      [] d = "Absent" -> "edit"

\* The arms of update_ipvN's match on the reconciliation: Ok(Some(true)) returns
\* true, Ok(Some(false)) edits the record, Ok(None) creates one.
match_arm(d) ==
    CASE d = "Unchanged" -> "return"
      [] d = "Stale" -> "edit"
      [] d = "Absent" -> "create"

\* ------------------------------------------------------------ update_ipv4
\* let ip_address = match client.ping_ipv4() { .. }
Ipv4Ping ==
    /\ pc = "ipv4"
    /\ config.ipv4
    /\ \E resp \in PingResponses :
          LET r == ping_ipv4(resp)
          IN  /\ calls' = Append(calls, Call("ipv4", "ping_ipv4",
                                 ping_url_request(client, PingIpv4Url),
                                 None, None, None, None, None))
              /\ IF r.ok /\ r.value.some
                 THEN /\ ip_address' = r.value.v
                      /\ observed' = [observed EXCEPT !["ipv4"] = r.value.v]
                      /\ pc' = "v4_fetch"
                      /\ UNCHANGED <<arm, error_count, outcome>>
                 ELSE /\ Return("ipv4", FALSE)
                      /\ observed' = observed
    /\ reconciled' = NoReconcile
    /\ UNCHANGED <<config, client, decided, exit_code, last>>

\* match client.fetch_ipv4_records(..).map(|records| records.iter().find(..).map(..))
Ipv4Fetch ==
    /\ pc = "v4_fetch"
    /\ \E resp \in FetchResponses(MaxRecords) :
          LET r == fetch_ipv4_records(resp)
              d == reconcile(ip_address, r.value.list, RecordName(config))
          IN  /\ calls' = Append(calls, Call("ipv4", "fetch_ipv4_records",
                                 fetch_ipv4_records_request(client, config.domain,
                                                            config.subdomain),
                                 None, None, None, None, None))
              /\ IF ~r.ok
                 THEN /\ Return("ipv4", FALSE)
                      /\ UNCHANGED <<reconciled, decided>>
                 ELSE /\ reconciled' = [family |-> "ipv4", observed |-> ip_address,
                                        published |-> r.value.list,
                                        target |-> RecordName(config), decision |-> d]
                      /\ decided' = [decided EXCEPT !["ipv4"] = d]
                      /\ IF match_arm(d) = "return"
                         THEN Return("ipv4", TRUE)
                         ELSE /\ arm' = match_arm(d)
                              /\ pc' = "v4_write"
                              /\ UNCHANGED <<ip_address, error_count, outcome>>
    /\ UNCHANGED <<config, client, observed, exit_code, last>>

\* Ok(Some(false)) => client.edit_ipv4_address(&config.domain, subdomain, &ip_address)
Ipv4Edit ==
    /\ pc = "v4_write"
    /\ arm = "edit"
    /\ \E resp \in EditResponses :
          /\ calls' = Append(calls, Call("ipv4", "edit_ipv4_address",
                             edit_ipv4_address_request(client, config.domain,
                                                       config.subdomain, ip_address),
                             None, config.subdomain, ip_address, None, None))
          /\ Return("ipv4", edit_ipv4_address(resp).ok)
    /\ UNCHANGED <<config, client, reconciled, observed, decided, exit_code, last>>

\* Ok(None) => client.create_record(&config.domain, subdomain, RecordType::Aaaa,
\*                                  &ip_address.to_string(), None, None)
Ipv4Create ==
    /\ pc = "v4_write"
    /\ arm = "create"
    /\ \E resp \in CreateResponses :
          /\ calls' = Append(calls, Call("ipv4", "create_record",
                             create_record_request(client, config.domain, config.subdomain,
                                                   "AAAA", ip_address, None, None),
                             "AAAA", config.subdomain, ip_address, None, None))
          /\ Return("ipv4", create_record(resp).ok)
    /\ UNCHANGED <<config, client, reconciled, observed, decided, exit_code, last>>

\* ------------------------------------------------------------ update_ipv6
\* let ip_address = match client.ping_ipv6() { .. }
Ipv6Ping ==
    /\ pc = "ipv6"
    /\ config.ipv6
    /\ \E resp \in PingResponses :
          LET r == ping_ipv6(resp)
          IN  /\ calls' = Append(calls, Call("ipv6", "ping_ipv6",
                                 ping_url_request(client, PingUrl),
                                 None, None, None, None, None))
              /\ IF r.ok /\ r.value.some
                 THEN /\ ip_address' = r.value.v
                      /\ observed' = [observed EXCEPT !["ipv6"] = r.value.v]
                      /\ pc' = "v6_fetch"
                      /\ UNCHANGED <<arm, error_count, outcome>>
                 ELSE /\ Return("ipv6", FALSE)
                      /\ observed' = observed
    /\ reconciled' = NoReconcile
    /\ UNCHANGED <<config, client, decided, exit_code, last>>

\* match client.fetch_ipv6_records(..).map(|records| records.iter().find(..).map(..))
Ipv6Fetch ==
    /\ pc = "v6_fetch"
    /\ \E resp \in FetchResponses(MaxRecords) :
          LET r == fetch_ipv6_records(resp)
              d == reconcile(ip_address, r.value.list, RecordName(config))
          IN  /\ calls' = Append(calls, Call("ipv6", "fetch_ipv6_records",
                                 fetch_ipv6_records_request(client, config.domain,
                                                            config.subdomain),
                                 None, None, None, None, None))
              /\ IF ~r.ok
                 THEN /\ Return("ipv6", FALSE)
                      /\ UNCHANGED <<reconciled, decided>>
                 ELSE /\ reconciled' = [family |-> "ipv6", observed |-> ip_address,
                                        published |-> r.value.list,
                                        target |-> RecordName(config), decision |-> d]
                      /\ decided' = [decided EXCEPT !["ipv6"] = d]
                      /\ IF match_arm(d) = "return"
                         THEN Return("ipv6", TRUE)
                         ELSE /\ arm' = match_arm(d)
                              /\ pc' = "v6_write"
                              /\ UNCHANGED <<ip_address, error_count, outcome>>
    /\ UNCHANGED <<config, client, observed, exit_code, last>>

\* Ok(Some(false)) => client.edit_ipv6_address(&config.domain, subdomain, &ip_address)
Ipv6Edit ==
    /\ pc = "v6_write"
    /\ arm = "edit"
    /\ \E resp \in EditResponses :
          /\ calls' = Append(calls, Call("ipv6", "edit_ipv6_address",
                             edit_ipv6_address_request(client, config.domain,
                                                       config.subdomain, ip_address),
                             None, config.subdomain, ip_address, None, None))
          /\ Return("ipv6", edit_ipv6_address(resp).ok)
    /\ UNCHANGED <<config, client, reconciled, observed, decided, exit_code, last>>

\* Ok(None) => client.create_record(&config.domain, subdomain, RecordType::Aaaa,
\*                                  &ip_address.to_string(), None, None)
Ipv6Create ==
    /\ pc = "v6_write"
    /\ arm = "create"
    /\ \E resp \in CreateResponses :
          /\ calls' = Append(calls, Call("ipv6", "create_record",
                             create_record_request(client, config.domain, config.subdomain,
                                                   "AAAA", ip_address, None, None),
                             "AAAA", config.subdomain, ip_address, None, None))
          /\ Return("ipv6", create_record(resp).ok)
    /\ UNCHANGED <<config, client, reconciled, observed, decided, exit_code, last>>

Next ==
    \/ OpenKeys
    \/ SkipIpv4 \/ Ipv4Ping \/ Ipv4Fetch \/ Ipv4Edit \/ Ipv4Create
    \/ SkipIpv6 \/ Ipv6Ping \/ Ipv6Fetch \/ Ipv6Edit \/ Ipv6Create
    \/ Exit

Spec == Init /\ [][Next]_vars

\* ------------------------------------------------- direct library calls
\* A caller of the library: opens a key file, then calls the client's public
\* operations one after the other in any order, each against any response of
\* the provider.
RecordTypes == {"A", "AAAA"}
Ttls == {None, "600"}

LibCall(fn, family, req, resp, result) ==
    [fn |-> fn, family |-> family, req |-> req, resp |-> resp, result |-> result]

LibInit ==
    /\ pc = "lib_open"
    /\ config \in {c \in Configs : c.ipv4 /\ c.ipv6 /\ c.subdomain = None
                                    /\ c.key \notin BadKeyFiles}
    /\ client = NoClient
    /\ ip_address = None
    /\ arm = None
    /\ reconciled = NoReconcile
    /\ observed = [f \in Families |-> None]
    /\ decided = [f \in Families |-> None]
    /\ error_count = 0
    /\ exit_code = -1
    /\ outcome = [f \in Families |-> "not_run"]
    /\ calls = <<>>
    /\ last = NoCall

\* Client::open_keys on any key file; without a client nothing can be called.
LibOpenKeys ==
    /\ pc = "lib_open"
    /\ \E file \in GoodKeyFiles \cup BadKeyFiles :
          LET r == open_keys(file)
          IN  IF r.ok THEN client' = r.value /\ pc' = "lib"
              ELSE client' = client /\ pc' = "lib_failed"
    /\ UNCHANGED <<config, ip_address, arm, reconciled, observed, decided, error_count,
                   exit_code, outcome, calls, last>>

\* The call returns to the caller; nothing but `last` records it.
LibReturned ==
    /\ pc' = "lib_returned"
    /\ UNCHANGED <<config, client, ip_address, arm, reconciled, observed, decided,
                   error_count, exit_code, outcome, calls>>

LibPing ==
    /\ pc = "lib"
    /\ \E resp \in PingResponses :
          last' = LibCall("ping", "any", ping_url_request(client, PingUrl), resp, ping(resp))
    /\ LibReturned

LibPingIpv4 ==
    /\ pc = "lib"
    /\ \E resp \in PingResponses :
          last' = LibCall("ping_ipv4", "ipv4", ping_url_request(client, PingIpv4Url), resp,
                          ping_ipv4(resp))
    /\ LibReturned

LibPingIpv6 ==
    /\ pc = "lib"
    /\ \E resp \in PingResponses :
          last' = LibCall("ping_ipv6", "ipv6", ping_url_request(client, PingUrl), resp,
                          ping_ipv6(resp))
    /\ LibReturned

LibFetchRecords ==
    /\ pc = "lib"
    /\ \E resp \in FetchResponses(MaxLibRecords), domain \in Domains :
          last' = LibCall("fetch_records", "any", fetch_records_request(client, domain), resp,
                          fetch_records(resp))
    /\ LibReturned

LibFetchIpv4Records ==
    /\ pc = "lib"
    /\ \E resp \in FetchResponses(MaxLibRecords), domain \in Domains, subdomain \in Subdomains :
          last' = LibCall("fetch_ipv4_records", "ipv4",
                          fetch_ipv4_records_request(client, domain, subdomain), resp,
                          fetch_ipv4_records(resp))
    /\ LibReturned

LibFetchIpv6Records ==
    /\ pc = "lib"
    /\ \E resp \in FetchResponses(MaxLibRecords), domain \in Domains, subdomain \in Subdomains :
          last' = LibCall("fetch_ipv6_records", "ipv6",
                          fetch_ipv6_records_request(client, domain, subdomain), resp,
                          fetch_ipv6_records(resp))
    /\ LibReturned

LibCreateRecord ==
    /\ pc = "lib"
    /\ \E resp \in CreateResponses, domain \in Domains, name \in Subdomains,
          ty \in RecordTypes, content \in IpAddrs, ttl \in Ttls, prio \in {None} :
          last' = LibCall("create_record", "any",
                          create_record_request(client, domain, name, ty, content, ttl, prio),
                          resp, create_record(resp))
    /\ LibReturned

LibEditIpv4Address ==
    /\ pc = "lib"
    /\ \E resp \in EditResponses, domain \in Domains, subdomain \in Subdomains,
          address \in Ipv4Addrs :
          last' = LibCall("edit_ipv4_address", "ipv4",
                          edit_ipv4_address_request(client, domain, subdomain, address),
                          resp, edit_ipv4_address(resp))
    /\ LibReturned

LibEditIpv6Address ==
    /\ pc = "lib"
    /\ \E resp \in EditResponses, domain \in Domains, subdomain \in Subdomains,
          address \in Ipv6Addrs :
          last' = LibCall("edit_ipv6_address", "ipv6",
                          edit_ipv6_address_request(client, domain, subdomain, address),
                          resp, edit_ipv6_address(resp))
    /\ LibReturned

\* The caller has consumed the result and is free to call again.
LibReturn ==
    /\ pc = "lib_returned"
    /\ pc' = "lib"
    /\ last' = NoCall
    /\ UNCHANGED <<config, client, ip_address, arm, reconciled, observed, decided,
                   error_count, exit_code, outcome, calls>>

LibNext ==
    \/ LibOpenKeys
    \/ LibReturn
    \/ LibPing \/ LibPingIpv4 \/ LibPingIpv6
    \/ LibFetchRecords \/ LibFetchIpv4Records \/ LibFetchIpv6Records
    \/ LibCreateRecord
    \/ LibEditIpv4Address \/ LibEditIpv6Address

LibSpec == LibInit /\ [][LibNext]_vars

\* ================================================================ claims
\* Helpers of the claims below.
Returned == pc = "lib_returned"

IsMalformedResponse(result) ==
    ~result.ok /\ result.err.kind \in {"MalformedApi", "MalformedApiSerde"}

IsErrorEnvelope(resp) == resp.kind = "object" /\ resp.status = "ERROR"

FetchFns == {"fetch_records", "fetch_ipv4_records", "fetch_ipv6_records"}

CallsOf(f) == SelectSeq(calls, LAMBDA c : c.family = f)
CallsTo(f, fn) == SelectSeq(CallsOf(f), LAMBDA c : c.fn = fn)

PingFn(f) == IF f = "ipv4" THEN "ping_ipv4" ELSE "ping_ipv6"
FetchFn(f) == IF f = "ipv4" THEN "fetch_ipv4_records" ELSE "fetch_ipv6_records"
EditFn(f) == IF f = "ipv4" THEN "edit_ipv4_address" ELSE "edit_ipv6_address"
AddrsOf(f) == IF f = "ipv4" THEN Ipv4Addrs ELSE Ipv6Addrs
TypeOf(f) == IF f = "ipv4" THEN "A" ELSE "AAAA"
Requested(f) == IF f = "ipv4" THEN config.ipv4 ELSE config.ipv6

\* The value of field k of a parsed body, <<>> when there is none.
FieldValue(p, k) ==
    IF \E n \in 1..Len(p.fields) : p.fields[n].key = <<k>>
    THEN p.fields[CHOOSE n \in 1..Len(p.fields) : p.fields[n].key = <<k>>].value
    ELSE <<>>

\* The symbol written as the value of "type" in a body, None when there is none.
BodyType(body) ==
    LET at == {i \in 1..Len(body) : i + 4 <= Len(body)
                                     /\ SubSeq(body, i, i + 3) = <<Q, "type", Q, ":">>}
    IN  IF at = {} THEN None
        ELSE LET i == CHOOSE i \in at : TRUE
             IN  IF body[i + 4] = Q /\ i + 5 <= Len(body) THEN body[i + 5] ELSE body[i + 4]

\* A body the provider can read: one JSON object with both keys as strings.
WellFormedBody(body) ==
    LET p == ParseObject(body)
    IN  p.ok /\ HasStringField(p, "apikey") /\ HasStringField(p, "secretapikey")

\* C1: an ERROR response with a message m makes the operation return
\* ApiError(m), m unchanged; an ERROR response without a message field makes it
\* return MalformedResponse, never ApiError with an empty message.
C1_ErrorEnvelopeDecoding ==
    (Returned /\ IsErrorEnvelope(last.resp)) =>
        /\ last.resp.message.tag = "str" =>
              last.result = Err("Api", last.resp.message.text)
        /\ last.resp.message.tag = "absent" => IsMalformedResponse(last.result)

\* C2: after a successful ping (address a) and fetch of a family, Unchanged
\* means no edit and no create call and the family succeeds; Stale means exactly
\* one edit call carrying a and no create call; Absent means exactly one create
\* call with content a and no ttl and prio, and no edit call.
C2_WritesFollowDecision ==
    \A f \in Families :
        decided[f] # None =>
            LET edits == CallsTo(f, EditFn(f))
                creates == CallsTo(f, "create_record")
                writes == IF outcome[f] = "not_run" THEN 0 ELSE 1
                a == observed[f]
            IN  CASE decided[f] = "Unchanged" ->
                       /\ edits = <<>> /\ creates = <<>>
                       /\ outcome[f] = "ok"
                  [] decided[f] = "Stale" ->
                       /\ creates = <<>>
                       /\ Len(edits) = writes
                       /\ \A n \in 1..Len(edits) :
                             /\ edits[n].content = a
                             /\ LET b == edits[n].req.body
                                IN  SubSeq(b, Len(b) - 7, Len(b))
                                      = <<Q, "content", Q, ":", Q, a, Q, "}">>
                  [] decided[f] = "Absent" ->
                       /\ edits = <<>>
                       /\ Len(creates) = writes
                       /\ \A n \in 1..Len(creates) :
                             /\ creates[n].content = a
                             /\ creates[n].ttl = None /\ creates[n].prio = None
                             /\ LET p == ParseObject(creates[n].req.body)
                                IN  /\ p.ok
                                    /\ FieldValue(p, "content") = <<a>>
                                    /\ FieldValue(p, "ttl") = <<"null">>
                                    /\ FieldValue(p, "prio") = <<"null">>

C2_Witness ==
    /\ pc = "done"
    /\ decided["ipv4"] = "Stale" /\ Len(CallsTo("ipv4", "edit_ipv4_address")) = 1
    /\ decided["ipv6"] = "Absent" /\ Len(CallsTo("ipv6", "create_record")) = 1

\* C3: when the key file loads, the exit status is the number of requested
\* families whose update failed; a requested family is attempted whatever
\* happened to the other, and a family not requested is never run.
C3_ExitStatusCountsFailures ==
    (pc = "done" /\ client # NoClient) =>
        /\ exit_code = Cardinality({f \in Families : Requested(f) /\ outcome[f] = "failed"})
        /\ \A f \in Families :
              IF Requested(f)
              THEN outcome[f] # "not_run" /\ Len(CallsTo(f, PingFn(f))) = 1
              ELSE outcome[f] = "not_run" /\ CallsOf(f) = <<>>

C3_Witness ==
    /\ pc = "done" /\ client # NoClient
    /\ exit_code = 2
    /\ outcome["ipv4"] = "failed" /\ CallsOf("ipv6") # <<>>

\* C4: the decision is taken from the first record whose name is exactly the
\* target name: Unchanged when its address is the observed one, Stale when it
\* is another; Absent when no record has that name.
C4_FirstExactMatchDecides ==
    reconciled.family # None =>
        LET pub == reconciled.published
            matches == {n \in 1..Len(pub) : pub[n].name = reconciled.target}
        IN  IF matches = {} THEN reconciled.decision = "Absent"
            ELSE LET first == CHOOSE n \in matches : \A m \in matches : n <= m
                 IN  reconciled.decision =
                        IF pub[first].content = reconciled.observed
                        THEN "Unchanged" ELSE "Stale"

C4_Witness ==
    /\ reconciled.family # None
    /\ Len(reconciled.published) = 2
    /\ reconciled.published[1].name = reconciled.target
    /\ reconciled.published[2].name = reconciled.target
    /\ reconciled.published[1].content = reconciled.observed
    /\ reconciled.published[2].content # reconciled.observed
    /\ reconciled.decision = "Unchanged"

\* C5: on a ping response that decodes successfully, ping_ipv4 returns an IPv4
\* address and fails with UnexpectedIpv6 on an IPv6 one, ping_ipv6 the other
\* way round, both return no address when the response has none; an error of
\* the underlying ping is returned as it is.
C5_PingFamilyCheck ==
    (Returned /\ last.fn \in {"ping_ipv4", "ping_ipv6"}) =>
        LET resp == last.resp
            want == IF last.fn = "ping_ipv4" THEN Ipv4Addrs ELSE Ipv6Addrs
            unexpected == IF last.fn = "ping_ipv4" THEN "UnexpectedIpv6" ELSE "UnexpectedIpv4"
        IN  IF ping(resp).ok
            THEN /\ resp.payload.v \in want => last.result = Ok(Some(resp.payload.v))
                 /\ resp.payload.v \in IpAddrs \ want =>
                       last.result = Err(unexpected, resp.payload.v)
                 /\ resp.payload.tag \in {"absent", "null"} => last.result = Ok(NoValue)
            ELSE last.result = ping(resp)

C5_Witness ==
    /\ Returned /\ last.fn = "ping_ipv4"
    /\ last.resp.kind = "object" /\ last.resp.status = "SUCCESS"
    /\ last.resp.payload.v \in Ipv6Addrs
    /\ last.result = Err("UnexpectedIpv6", last.resp.payload.v)

\* C6: an edit-by-name-type request goes to
\* /api/json/v3/dns/editByNameType/{domain}/{TYPE}/{subdomain?} with TYPE, and
\* the type of its body, the record type of the family edited: A for
\* edit_ipv4_address, AAAA for edit_ipv6_address, as in the family's fetch.
C6_EditTypeIsFamilyType ==
    (Returned /\ last.fn \in {"edit_ipv4_address", "edit_ipv6_address"}) =>
        LET url == last.req.url
            fetch == IF last.family = "ipv4"
                     THEN fetch_ipv4_records_request(client, url[7], None)
                     ELSE fetch_ipv6_records_request(client, url[7], None)
        IN  /\ Len(url) = 9
            /\ SubSeq(url, 2, 6) = <<"api", "json", "v3", "dns", "editByNameType">>
            /\ UrlType(url) = TypeOf(last.family)
            /\ UrlType(url) = UrlType(fetch.url)
            /\ BodyType(last.req.body) = TypeOf(last.family)

\* C7: a SUCCESS response of a record-listing operation without a records field
\* decodes to the empty list, not to an error.
C7_OmittedRecordsIsEmptyList ==
    (/\ Returned /\ last.fn \in FetchFns
     /\ last.resp.kind = "object" /\ last.resp.status = "SUCCESS"
     /\ last.resp.payload.tag = "absent") =>
        last.result = Ok(List(<<>>))

\* C7 as amended: a SUCCESS response of a record-listing operation without a
\* records field is a malformed response (MalformedApi), never a list; one
\* whose records field is the empty list decodes to the empty list.
C7_OmittedRecordsIsMalformed ==
    (/\ Returned /\ last.fn \in FetchFns
     /\ last.resp.kind = "object" /\ last.resp.status = "SUCCESS") =>
        /\ last.resp.payload.tag = "absent" => last.result = Err("MalformedApi", "")
        /\ (last.resp.payload.tag = "value" /\ last.resp.payload.list = <<>>) =>
              last.result = Ok(List(<<>>))

C7_Witness ==
    /\ Returned /\ last.fn = "fetch_ipv4_records"
    /\ last.resp.kind = "object" /\ last.resp.status = "SUCCESS"
    /\ last.resp.payload.tag = "absent"
    /\ ~last.result.ok

\* C8: the body of every request the client sends is a well-formed JSON object
\* with apikey and secretapikey as JSON strings.
C8_BodiesAreJsonObjects ==
    Returned => WellFormedBody(last.req.body)

\* C9: the calls of a family are ping, then fetch, then at most one write, each
\* at most once; fetch only after ping returned an address of the family, a
\* write only after fetch succeeded; every IPv4 call precedes every IPv6 call.
C9_CallOrder ==
    /\ \A f \in Families :
          LET cs == CallsOf(f)
          IN  /\ Len(cs) <= 3
              /\ Len(cs) >= 1 => cs[1].fn = PingFn(f)
              /\ Len(cs) >= 2 => cs[2].fn = FetchFn(f) /\ observed[f] \in AddrsOf(f)
              /\ Len(cs) >= 3 => /\ cs[3].fn \in {EditFn(f), "create_record"}
                                 /\ decided[f] \in {"Stale", "Absent"}
              /\ (outcome[f] = "failed" /\ observed[f] = None) => Len(cs) = 1
              /\ (outcome[f] = "failed" /\ observed[f] # None /\ decided[f] = None) =>
                    Len(cs) = 2
    /\ \A i \in 1..Len(calls) : \A j \in 1..Len(calls) :
          (calls[i].family = "ipv6" /\ calls[j].family = "ipv4") => j < i

C9_Witness ==
    /\ pc = "done"
    /\ Len(CallsOf("ipv4")) = 3 /\ Len(CallsOf("ipv6")) = 3
    /\ outcome["ipv4"] = "failed"

\* C10: a create call made by the driver has the record type of the family
\* being reconciled: A with an IPv4 address, AAAA with an IPv6 address.
C10_CreateTypeIsFamilyType ==
    \A n \in 1..Len(calls) :
        calls[n].fn = "create_record" =>
            /\ calls[n].ty = TypeOf(calls[n].family)
            /\ calls[n].content \in Ipv4Addrs => calls[n].ty = "A"
            /\ calls[n].content \in Ipv6Addrs => calls[n].ty = "AAAA"
            /\ BodyType(calls[n].req.body) = calls[n].ty

====
